---- MODULE Spec2Model ----
(***************************************************************************)
(* The lead-capture form of venspace-campaign: the zod validation schema,  *)
(* the phone input's onChange normalisation and the two onSubmit           *)
(* implementations the repository holds (src/app/page.tsx, which calls the *)
(* subscription endpoint, and src/unnamed/part_000, a local stub).         *)
(*                                                                         *)
(* Text values are sequences of one-character strings, so that the regex   *)
(* of the schema and of the onChange handler are computed character by     *)
(* character.  The description is compared as a whole only and is a        *)
(* string.                                                                 *)
(*                                                                         *)
(* Execution is the browser's event loop: a handler runs to its next       *)
(* await without interleaving, and a render reflects the state the         *)
(* handler left (the button's disabled attribute is `loading`).            *)
(***************************************************************************)
EXTENDS Integers, Sequences, FiniteSets, TLC

VARIABLES
    impl,         \* which onSubmit is mounted: "page" or "part_000"
    email,        \* form value (sequence of characters)
    phone,        \* form value (sequence of characters)
    description,  \* form value (string)
    errors,       \* formState.errors: field -> message, "" when none
    isSubmitted,  \* formState.isSubmitted: a form.handleSubmit has ended
    loading,      \* useState(false)
    showSuccess,  \* useState(false)
    pending,      \* onSubmit invocations suspended at an await, oldest first
    alerts,       \* the messages shown with alert(), oldest first
    nSubmit,      \* history: onSubmit invocations
    nFetch,       \* history: calls of fetch
    lastOutcome   \* history: how the last completed outbound call ended

vars == <<impl, email, phone, description, errors, isSubmitted, loading,
          showSuccess, pending, alerts, nSubmit, nFetch, lastOutcome>>

----------------------------------------------------------------------------
(* Bounds of the model.                                                    *)

\* onSubmit invocations explored in one behaviour
MaxSubmits == 2

----------------------------------------------------------------------------
(* Characters.                                                             *)

Digits == {"0", "1", "2", "3", "4", "5", "6", "7", "8", "9"}

Letters ==
    {"a", "b", "c", "d", "e", "f", "g", "h", "i", "j", "k", "l", "m",
     "n", "o", "p", "q", "r", "s", "t", "u", "v", "w", "x", "y", "z",
     "A", "B", "C", "D", "E", "F", "G", "H", "I", "J", "K", "L", "M",
     "N", "O", "P", "Q", "R", "S", "T", "U", "V", "W", "X", "Y", "Z"}

\* \s of a JavaScript regex: the 25 code units of WhiteSpace and
\* LineTerminator.  A code unit outside ASCII, or without an escape in a
\* string, is written by its name, "U+00A0".
Whitespace ==
    {"\t", "\n", "U+000B", "\f", "\r", " ", "U+00A0", "U+1680",
     "U+2000", "U+2001", "U+2002", "U+2003", "U+2004", "U+2005", "U+2006",
     "U+2007", "U+2008", "U+2009", "U+200A", "U+2028", "U+2029", "U+202F",
     "U+205F", "U+3000", "U+FEFF"}

----------------------------------------------------------------------------
(* formSchema                                                              *)

EmailMessage == "Please enter a valid email address."
PhoneMinMessage == "Phone number must be at least 10 digits"
PhoneMaxMessage == "Phone number must be at most 15 digits"
PhoneRegexMessage == "Please enter a valid phone number"
DescriptionMessage == "Please select what best describes you"

PhoneMin == 10
PhoneMax == 15
DescriptionMin == 1

\* zod's email pattern:
\* /^(?!\.)(?!.*\.\.)([A-Z0-9_'+\-\.]*)[A-Z0-9_+-]@([A-Z0-9][A-Z0-9\-]*\.)+[A-Z]{2,}$/i
AlphaNum == Letters \cup Digits
LocalChars == AlphaNum \cup {"_", "'", "+", "-", "."}
LocalLast == AlphaNum \cup {"_", "+", "-"}

IsEmail(s) ==
    LET n == Len(s)
        ats == {i \in 1..n : s[i] = "@"}
    IN  /\ Cardinality(ats) = 1
        /\ LET at == CHOOSE i \in ats : TRUE
               dots == {i \in (at + 1)..n : s[i] = "."}
           IN  /\ at >= 2
               /\ s[1] # "."
               /\ \A i \in 1..(n - 1) : ~(s[i] = "." /\ s[i + 1] = ".")
               /\ \A i \in 1..(at - 2) : s[i] \in LocalChars
               /\ s[at - 1] \in LocalLast
               /\ dots # {}
               /\ LET lastDot == CHOOSE i \in dots : \A j \in dots : j <= i
                  IN  /\ n - lastDot >= 2
                      /\ \A i \in (lastDot + 1)..n : s[i] \in Letters
                      /\ at + 1 < lastDot
                      /\ s[at + 1] \in AlphaNum
                      /\ \A i \in (at + 1)..(lastDot - 1) :
                            /\ s[i] \in AlphaNum \cup {"-", "."}
                            /\ s[i] = "." => s[i + 1] \in AlphaNum

\* /^[+]?[(]?[0-9]{1,4}[)]?[-\s./0-9]*$/
PhoneTail == Digits \cup Whitespace \cup {"-", ".", "/"}

PhoneRegex(s) ==
    LET n == Len(s)
    IN  \E p \in 0..1, q \in 0..1, k \in 1..4, r \in 0..1 :
            /\ p + q + k + r <= n
            /\ p = 1 => s[1] = "+"
            /\ q = 1 => s[p + 1] = "("
            /\ \A j \in 1..k : s[p + q + j] \in Digits
            /\ r = 1 => s[p + q + k + 1] = ")"
            /\ \A j \in (p + q + k + r + 1)..n : s[j] \in PhoneTail

EmailError(s) == IF IsEmail(s) THEN "" ELSE EmailMessage

\* the first issue of the field is the one the form shows
PhoneError(s) ==
    IF Len(s) < PhoneMin THEN PhoneMinMessage
    ELSE IF Len(s) > PhoneMax THEN PhoneMaxMessage
    ELSE IF ~PhoneRegex(s) THEN PhoneRegexMessage
    ELSE ""

DescriptionError(d) == IF Len(d) < DescriptionMin THEN DescriptionMessage ELSE ""

Values(e, p, d) == [email |-> e, phone |-> p, description |-> d]

formSchema(values) ==
    [email |-> EmailError(values.email),
     phone |-> PhoneError(values.phone),
     description |-> DescriptionError(values.description)]

NoErrors == [email |-> "", phone |-> "", description |-> ""]

----------------------------------------------------------------------------
(* The form                                                                *)

defaultValues == Values(<<>>, <<>>, "")

\* the values form.reset is called with
resetValues == Values(<<>>, <<>>, "Select")

\* the SelectItem values
SelectItems ==
    {"I own a space to share",
     "I am hunting for the perfect space",
     "Both! I own and I am looking "}

\* the phone input's onChange: e.target.value.replace(/[^\d+-]/g, "")
PhoneKept == Digits \cup {"+", "-"}
\* a filter that lets the separators of the schema's pattern through
KeepsSeparators(c) == c \in PhoneKept \cup {" ", ".", "(", ")"}
KeepsPhoneChar(c) == c \in PhoneKept
phoneOnChange(raw) == SelectSeq(raw, KeepsPhoneChar)

\* a button that stays enabled while a submission is pending
SubmitNeverDisabled == FALSE
\* disabled={loading} on the submit button
SubmitDisabled == loading

formValues == Values(email, phone, description)

----------------------------------------------------------------------------
(* onSubmit of src/app/page.tsx                                            *)

\* a record that carries the description whatever it is
contactInfoUnconditional(values) ==
    LET base == "Contact Email" :> values.email
        withPhone == IF values.phone # <<>>
                     THEN base @@ ("Phone" :> values.phone)
                     ELSE base
    IN  withPhone @@ ("Description" :> values.description)

\* the contact record: "Phone" when values.phone is truthy, "Description"
\* when values.description is not "Select"
contactInfo(values) ==
    LET base == "Contact Email" :> values.email
        withPhone == IF values.phone # <<>>
                     THEN base @@ ("Phone" :> values.phone)
                     ELSE base
    IN  IF values.description # "Select"
        THEN withPhone @@ ("Description" :> values.description)
        ELSE withPhone

\* the call handed to fetch; the authorization header is spread in only
\* when process.env.ZOHO_OAUTH_TOKEN is set, which it is not in a browser
apiUrl(values) ==
    [endpoint |-> "https://campaigns.zoho.com/api/v1.1/json/listsubscribe",
     resfmt |-> "JSON",
     listkey |-> "NEXT_PUBLIC_ZOHO_LIST_KEY",
     contactinfo |-> contactInfo(values),
     source |-> "WebsiteForm",
     method |-> "POST",
     mode |-> "cors"]

\* no body was read
NoBody == [parsed |-> FALSE, isNull |-> FALSE, status |-> "", message |-> ""]

\* a body that response.json() rejects; message is that of the error it
\* rejects with, which is the engine's
Unparseable(message) ==
    [parsed |-> FALSE, isNull |-> FALSE, status |-> "", message |-> message]

\* error.message of a rejected fetch (Chrome, node)
FetchRejections == {"Failed to fetch", "fetch failed"}

\* error.message of a rejected response.json(): an empty body (node, then
\* Chrome) and the body "<html>"
JsonRejections ==
    {"Unexpected end of JSON input",
     "Failed to execute 'json' on 'Response': Unexpected end of JSON input",
     "Unexpected token '<', \"<html>\" is not valid JSON"}

\* error.message of the TypeError a read of a property of null throws
NullReadMessage(property) ==
    "Cannot read properties of null (reading '" \o property \o "')"

\* what the endpoint can answer with: a body that response.json() cannot
\* parse, the body null, or a parsed body with its status and message
\* ("" where it has none)
Bodies ==
    {Unparseable(m) : m \in JsonRejections} \cup
    {[parsed |-> TRUE, isNull |-> TRUE, status |-> "", message |-> ""],
     [parsed |-> TRUE, isNull |-> FALSE, status |-> "", message |-> ""],
     [parsed |-> TRUE, isNull |-> FALSE, status |-> "success",
      message |-> "Confirmation sent"],
     [parsed |-> TRUE, isNull |-> FALSE, status |-> "error",
      message |-> "Invalid list key"],
     [parsed |-> TRUE, isNull |-> FALSE, status |-> "error", message |-> ""]}

NoOutcome == [kind |-> "none", ok |-> FALSE, body |-> NoBody]

\* a check of the HTTP status alone
ThrowsOnStatusOnly(ok, body) == ~ok
\* if (!response.ok || responseData.status === 'error') throw
ThrowsOnResponse(ok, body) == ~ok \/ body.status = "error"

\* new Error(responseData.message || 'Subscription failed')
ErrorMessage(body) ==
    IF body.message # "" THEN body.message ELSE "Subscription failed"

RemoveAt(seq, i) == SubSeq(seq, 1, i - 1) \o SubSeq(seq, i + 1, Len(seq))

\* form.reset(values): the values, and the form state with them.  It also
\* clears formState.isSubmitted, which the step it is part of sets again
\* (Submitted)
FormReset(values) ==
    /\ email' = values.email
    /\ phone' = values.phone
    /\ description' = values.description
    /\ errors' = NoErrors

\* the end of form.handleSubmit, once onSubmit has returned or its promise
\* has settled: formState.isSubmitted becomes true, after a reset as well
Submitted == isSubmitted' = TRUE

\* an onSubmit that takes the success message down when it starts
onSubmitClearingSuccess(values) ==
    /\ loading' = TRUE
    /\ showSuccess' = FALSE
    /\ pending' = Append(pending, [values |-> values,
                                   request |-> apiUrl(values),
                                   stage |-> "fetch",
                                   ok |-> FALSE])
    /\ nSubmit' = nSubmit + 1
    /\ nFetch' = nFetch + 1
    /\ UNCHANGED <<email, phone, description, alerts, lastOutcome>>

\* onSubmit up to its first await: setLoading(true), the record, fetch
onSubmit(values) ==
    /\ loading' = TRUE
    /\ pending' = Append(pending, [values |-> values,
                                   request |-> apiUrl(values),
                                   stage |-> "fetch",
                                   ok |-> FALSE])
    /\ nSubmit' = nSubmit + 1
    /\ nFetch' = nFetch + 1
    /\ UNCHANGED <<email, phone, description, showSuccess, alerts, lastOutcome>>

\* catch (error) { alert(...) } finally { setLoading(false) }
Catch(i, message, outcome) ==
    /\ alerts' = Append(alerts, "Subscription failed: " \o message)
    /\ loading' = FALSE
    /\ pending' = RemoveAt(pending, i)
    /\ lastOutcome' = outcome
    /\ UNCHANGED <<impl, email, phone, description, errors, showSuccess,
                   nSubmit, nFetch>>

\* the fetch promise rejects (no network, CORS); onSubmit settles and
\* form.handleSubmit ends
FetchRejects ==
    \E i \in 1..Len(pending), message \in FetchRejections :
        /\ pending[i].stage = "fetch"
        /\ Catch(i, message,
                 [kind |-> "rejected", ok |-> FALSE, body |-> NoBody])
        /\ Submitted

\* the fetch promise resolves with a response; onSubmit awaits its body
FetchResolves ==
    \E i \in 1..Len(pending), ok \in BOOLEAN :
        /\ pending[i].stage = "fetch"
        /\ pending' = [pending EXCEPT ![i].stage = "json", ![i].ok = ok]
        /\ UNCHANGED <<impl, email, phone, description, errors, isSubmitted,
                       loading, showSuccess, alerts, nSubmit, nFetch,
                       lastOutcome>>

\* response.json() settles; the rest of onSubmit runs and
\* form.handleSubmit ends.  Of a null body the test reads status when the
\* response is OK and the throw reads message when it is not; either read
\* throws a TypeError, which the catch takes like any other error.
JsonSettles ==
    \E i \in 1..Len(pending), body \in Bodies :
        LET ok == pending[i].ok
            outcome == [kind |-> "response", ok |-> ok, body |-> body]
        IN  /\ pending[i].stage = "json"
            /\ IF ~body.parsed
               THEN Catch(i, body.message, outcome)
               ELSE IF body.isNull
               THEN Catch(i, NullReadMessage(IF ok THEN "status"
                                             ELSE "message"), outcome)
               ELSE IF ThrowsOnResponse(ok, body)
               THEN Catch(i, ErrorMessage(body), outcome)
               ELSE /\ showSuccess' = TRUE
                    /\ FormReset(resetValues)
                    /\ loading' = FALSE
                    /\ pending' = RemoveAt(pending, i)
                    /\ lastOutcome' = outcome
                    /\ UNCHANGED <<impl, alerts, nSubmit, nFetch>>
            /\ Submitted

----------------------------------------------------------------------------
(* onSubmit of src/unnamed/part_000                                        *)

onSubmitStub(values) ==
    /\ showSuccess' = TRUE
    /\ loading' = TRUE
    /\ FormReset(resetValues)
    /\ nSubmit' = nSubmit + 1
    /\ UNCHANGED <<pending, alerts, nFetch, lastOutcome>>

----------------------------------------------------------------------------
(* The user's events                                                       *)

EmailInputs ==
    {<<>>,
     <<"a", "@", "b", ".", "c", "o", "m">>,
     <<"a", "b", ".", "c", "o", "m">>}

\* what the phone input can hold when its change event fires
PhoneInputs ==
    {<<>>,
     <<"1", "2", "3", "4", "5", "6", "7", "8", "9", "0">>,
     <<"+", "1", " ", "(", "2", "3", "4", ")", " ", "5", "6", "7", "-",
       "8", "9", "0", "1">>,
     <<"1", "2", "+", "3", "4", "5", "6", "7", "8", "9", "0">>,
     <<"1", "2", "3", ".", "4", "5", "6", ".", "7", "8", "9">>,
     <<"1", "2", "3", "4", "5", "6", "7", "8", "9", "0", "1", "2", "3",
       "4", "5", "6">>}

\* field.onChange after a submit attempt validates the field again
Revalidated(field, message) ==
    IF isSubmitted THEN [errors EXCEPT ![field] = message] ELSE errors

ChangeEmail ==
    \E v \in EmailInputs :
        /\ email' = v
        /\ errors' = Revalidated("email", EmailError(v))
        /\ UNCHANGED <<impl, phone, description, isSubmitted, loading,
                       showSuccess, pending, alerts, nSubmit, nFetch,
                       lastOutcome>>

ChangePhone ==
    \E raw \in PhoneInputs :
        /\ phone' = phoneOnChange(raw)
        /\ errors' = Revalidated("phone", PhoneError(phone'))
        /\ UNCHANGED <<impl, email, description, isSubmitted, loading,
                       showSuccess, pending, alerts, nSubmit, nFetch,
                       lastOutcome>>

ChangeDescription ==
    \E v \in SelectItems :
        /\ description' = v
        /\ errors' = Revalidated("description", DescriptionError(v))
        /\ UNCHANGED <<impl, email, phone, isSubmitted, loading,
                       showSuccess, pending, alerts, nSubmit, nFetch,
                       lastOutcome>>

\* a click on the submit button: form.handleSubmit(onSubmit).  With the
\* onSubmit of page.tsx it ends when the promise of onSubmit settles
\* (FetchRejects, JsonSettles), with that of part_000 in the same step.
handleSubmit ==
    IF SubmitDisabled
    THEN UNCHANGED vars
    ELSE IF formSchema(formValues) # NoErrors
    THEN /\ errors' = formSchema(formValues)
         /\ Submitted
         /\ UNCHANGED <<impl, email, phone, description, loading,
                        showSuccess, pending, alerts, nSubmit, nFetch,
                        lastOutcome>>
    ELSE /\ nSubmit < MaxSubmits
         /\ impl' = impl
         /\ \/ /\ impl = "page"
               /\ errors' = NoErrors
               /\ isSubmitted' = isSubmitted
               /\ onSubmit(formValues)
            \/ /\ impl = "part_000"
               /\ onSubmitStub(formValues)
               /\ Submitted

----------------------------------------------------------------------------

Init ==
    /\ impl \in {"page", "part_000"}
    /\ email = defaultValues.email
    /\ phone = defaultValues.phone
    /\ description = defaultValues.description
    /\ errors = NoErrors
    /\ isSubmitted = FALSE
    /\ loading = FALSE
    /\ showSuccess = FALSE
    /\ pending = <<>>
    /\ alerts = <<>>
    /\ nSubmit = 0
    /\ nFetch = 0
    /\ lastOutcome = NoOutcome

Next ==
    \/ ChangeEmail
    \/ ChangePhone
    \/ ChangeDescription
    \/ handleSubmit
    \/ FetchRejects
    \/ FetchResolves
    \/ JsonSettles

Spec == Init /\ [][Next]_vars

----------------------------------------------------------------------------
(* Properties                                                              *)

\* how the claims name the end of an outbound call
IsSuccessOutcome(o) ==
    /\ o.kind = "response"
    /\ o.ok
    /\ o.body.parsed
    /\ ~o.body.isNull
    /\ o.body.status # "error"
IsFailureOutcome(o) ==
    \/ o.kind = "rejected"
    \/ /\ o.kind = "response"
       /\ \/ ~o.ok
          \/ ~o.body.parsed
          \/ o.body.isNull
          \/ o.body.status = "error"

\* a step in which an outbound call ends
CallEnds == Len(pending') < Len(pending)
\* a step in which a submission ends in success
SubmissionSucceeds ==
    \/ CallEnds /\ IsSuccessOutcome(lastOutcome')
    \/ impl = "part_000" /\ nSubmit' = nSubmit + 1

\* C1: whenever a submission ends in success, the three fields are reset
\* to the values the form was created with (defaultValues).
C1_SuccessResetsToDefaults ==
    [][SubmissionSucceeds => formValues' = defaultValues]_vars

\* C2: when the outbound call fails (fetch rejects, non-OK status, body
\* that cannot be parsed, body with status 'error'), an alert is shown, the
\* success indicator is not set, and no step of the failing submission
\* changes email, phone or description.
C2_FailureKeepsFields ==
    [][/\ (CallEnds /\ IsFailureOutcome(lastOutcome')) =>
            /\ Len(alerts') = Len(alerts) + 1
            /\ showSuccess' = showSuccess
            /\ formValues' = formValues
       /\ (pending' # pending /\ ~(CallEnds /\ IsSuccessOutcome(lastOutcome'))) =>
            formValues' = formValues]_vars

\* a call that answered OK with status 'error' has failed: the alert is
\* up, the success indicator is down and the valid values are still there
C2_Witness ==
    /\ lastOutcome.kind = "response"
    /\ lastOutcome.ok
    /\ lastOutcome.body.status = "error"
    /\ alerts # <<>>
    /\ ~showSuccess
    /\ ~loading
    /\ formSchema(formValues) = NoErrors

\* C3: at most one outbound request is in flight at any time, and a submit
\* event that arrives while submitting is true or a request is pending
\* issues no request and changes no state.
C3_SingleFlight ==
    [][/\ Len(pending') <= 1
       /\ ((loading \/ pending # <<>>) /\ handleSubmit) => UNCHANGED vars]_vars

\* a request is pending while the form holds values that pass validation
\* and another onSubmit is within the bound: a click then would submit again
C3_Witness ==
    /\ loading
    /\ Len(pending) = 1
    /\ formSchema(formValues) = NoErrors
    /\ nSubmit < MaxSubmits

\* C4: a submit attempt made with nothing selected in the description
\* sets the description error and neither invokes onSubmit nor issues a
\* request.
C4_PlaceholderFailsValidation ==
    [][(~SubmitDisabled /\ description \notin SelectItems /\ handleSubmit) =>
            /\ errors'.description = DescriptionMessage
            /\ nSubmit' = nSubmit
            /\ nFetch' = nFetch]_vars

\* C5: once the outcome of every submission is determined, submitting is
\* false again and the submit control is enabled.
C5_IdleWhenSettled == pending = <<>> => ~loading /\ ~SubmitDisabled

\* C6: every request that is sent carries an email that passes the email
\* rule, a phone that passes the length and grammar rules, and a
\* description that is one of the selectable labels.
C6_RequestsCarryValidValues ==
    \A i \in 1..Len(pending) :
        /\ IsEmail(pending[i].values.email)
        /\ PhoneError(pending[i].values.phone) = ""
        /\ pending[i].values.description \in SelectItems

\* C7: each onSubmit issues exactly one outbound call, none is repeated
\* after a failure, and the success indicator is raised only in the step
\* in which a call ends with a success response.
C7_OneCallPerSubmit ==
    [][/\ nFetch' = nSubmit'
       /\ (~showSuccess /\ showSuccess') =>
            (CallEnds /\ IsSuccessOutcome(lastOutcome'))]_vars

\* C8 as stated: the stored phone holds only digits and an optional
\* leading '+'.
C8_DigitsAndLeadingPlus ==
    \A i \in 1..Len(phone) : phone[i] \in Digits \/ (i = 1 /\ phone[i] = "+")

\* C8 as amended: the stored phone holds only digits, '+' and '-', at any
\* position; spaces, parentheses, dots and every other character are
\* stripped, hyphens are kept.
C8_DigitsPlusHyphen ==
    \A i \in 1..Len(phone) :
        phone[i] \in Digits \/ phone[i] = "+" \/ phone[i] = "-"

\* "+1 (234) 567-8901" was typed: the spaces and parentheses are gone, the
\* hyphen is stored
C8_Witness ==
    phone = <<"+", "1", "2", "3", "4", "5", "6", "7", "-", "8", "9", "0", "1">>

\* C9: the success flag and the submitting flag are never both true.
C9_SuccessExcludesSubmitting == ~(showSuccess /\ loading)

\* C10: the contact record of every request holds "Contact Email" equal to
\* the submitted email, "Phone" exactly when the phone is non-empty, and
\* "Description" exactly when the description is neither empty nor
\* "Select"; a Description it carries is one of the selectable labels.
C10_ContactRecord ==
    \A i \in 1..Len(pending) :
        LET values == pending[i].values
            record == pending[i].request.contactinfo
        IN  /\ record["Contact Email"] = values.email
            /\ "Phone" \in DOMAIN record <=> values.phone # <<>>
            /\ "Phone" \in DOMAIN record => record["Phone"] = values.phone
            /\ "Description" \in DOMAIN record <=>
                   values.description \notin {"", "Select"}
            /\ "Description" \in DOMAIN record =>
                   /\ record["Description"] = values.description
                   /\ record["Description"] \in SelectItems

\* a request is out for a form submitted with the description at "Select":
\* its record has the email and the phone and no Description
C10_Witness ==
    \E i \in 1..Len(pending) :
        /\ pending[i].values.description = "Select"
        /\ DOMAIN pending[i].request.contactinfo = {"Contact Email", "Phone"}

\* C11: the success indicator is monotone: no step sets showSuccess back
\* to false, so once a submission has succeeded the success message stays
\* up, also when a later submission fails and raises the error alert.
C11_ShowSuccessMonotone == [][showSuccess => showSuccess']_vars

\* after a success, a later call of page.tsx has failed: its alert was
\* raised and the success message is still displayed
C11_Witness ==
    /\ impl = "page"
    /\ showSuccess
    /\ IsFailureOutcome(lastOutcome)
    /\ alerts # <<>>
    /\ nSubmit = 2

====
